---- MODULE Spec2Model ----
(***************************************************************************)
(* The client-side session and authentication lifecycle manager of the     *)
(* PTSI portal: class AuthService of src/public/js/authService.js, one     *)
(* instance over the two Web Storage scopes (sessionStorage, localStorage) *)
(* of its page, together with the clock, the pending timers and the        *)
(* asynchronous calls (hash, network) that are in flight.                  *)
(*                                                                         *)
(* Time is Date.now() in milliseconds.  A JavaScript null/undefined number *)
(* field is modelled by 0: the code only ever tests such fields for        *)
(* truthiness, which treats null and 0 alike.  An optional object is the   *)
(* empty sequence (null) or a one-element sequence.                        *)
(*                                                                         *)
(* The continuation that follows `await this.startSession(...)` runs in    *)
(* the microtask checkpoint of the task that delivered the response, so    *)
(* every completion handler is one atomic step; the suspension points are  *)
(* the hash call and the network calls.                                    *)
(***************************************************************************)
EXTENDS Integers, FiniteSets, Sequences, TLC

VARIABLES
    now,            \* Date.now(), milliseconds
    ticks,          \* how many times the clock has advanced
    session,        \* this.session
    user,           \* this.user
    csrfToken,      \* this.csrfToken
    loginAttempts,  \* this.loginAttempts
    lockoutUntil,   \* this.lockoutUntil
    refreshTimer,   \* this.refreshTimer: handle of the timer armed last
    timers,         \* the page's pending setTimeout callbacks (fire times)
    ss,             \* sessionStorage
    ls,             \* localStorage
    calls,          \* asynchronous calls in flight, by kind
    listeners,      \* the window's listeners added by on(), in registration order
    regs,           \* how many times on() has been called on this page
    started,        \* the arguments of the startSession this step ran, if any
    dispatched,     \* the events this step dispatched, with who received them
    snap,           \* the state a login() call found, while it runs undisturbed
    req,            \* the HttpClient.request() call in flight and its local variables
    ev              \* the step just taken and what it returned or threw

vars == <<now, ticks, session, user, csrfToken, loginAttempts, lockoutUntil,
          refreshTimer, timers, ss, ls, calls, listeners, regs, started, dispatched,
          snap, req, ev>>

----------------------------------------------------------------------------
(* Bounds of the model *)

MaxTicks == 2
MaxCalls == 2
MaxRegs == 2

(* Program constants *)

MAX_ATTEMPTS == 5
LOCKOUT_TIME == 15
RENEW_MARGIN == 300
MIN_REFRESH == 60
MS_PER_SECOND == 1000
MS_PER_MINUTE == 60000

MAX_AGE == 60 * 60 * 24 * 7

SESSION_KEY == "auth_session"
USER_KEY == "auth_user"
CSRF_KEY == "auth_csrf"
LOGIN_ATTEMPTS_KEY == "login_attempts"
LOCKOUT_UNTIL_KEY == "lockout_until"

\* SecureStorage keeps its records in the same two scopes under prefixed keys
STORAGE_PREFIX == "pts_dev_"
StoreKeys == {"k1"}
PrefixedKeys == {STORAGE_PREFIX \o key : key \in StoreKeys}

StorageKeys ==
    {SESSION_KEY, USER_KEY, CSRF_KEY, LOGIN_ATTEMPTS_KEY, LOCKOUT_UNTIL_KEY}
    \cup PrefixedKeys
SessionKeys == {SESSION_KEY, USER_KEY, CSRF_KEY}

\* the one event name the class dispatches, and another a page may listen for
AUTH_CHANGE == "authChange"
EventNames == {AUTH_CHANGE, "sessionExpired"}

(* Inputs *)

ClockSteps == {MS_PER_MINUTE, LOCKOUT_TIME * MS_PER_MINUTE}
Tokens == {"t1", "t2"}
Users == {"u1"}
NoUser == "null"
CsrfTokens == {"c1"}
NoCsrf == "null"
ExpiresInValues == {0, 60}     \* seconds; 0: the response carries no expiresIn

\* The user objects a response may carry, by name: the roles and permissions
\* property of each is absent (null), one string, or an array of strings
RoleNames == {"admin", "staff"}
PermissionNames == {"read", "write"}
One(name) == [isArray |-> FALSE, v |-> name]
Many(names) == [isArray |-> TRUE, v |-> names]
UserObjects ==
    [u \in {"u1", "u2", "u3", "u4"} |->
        CASE u = "u1" -> [roles |-> <<>>, permissions |-> <<>>]
          [] u = "u2" -> [roles |-> <<One("admin")>>,
                          permissions |-> <<Many(<<"read", "write">>)>>]
          [] u = "u3" -> [roles |-> <<Many(<<"staff", "admin">>)>>,
                          permissions |-> <<One("read")>>]
          [] u = "u4" -> [roles |-> <<Many(<<>>)>>, permissions |-> <<Many(<<>>)>>]]
Profiles == DOMAIN UserObjects

\* the argument of hasRole / hasPermission: one name, or a list of at most two
NameArgs(names) ==
    {One(n) : n \in names}
    \cup {Many(<<>>)}
    \cup {Many(<<n>>) : n \in names}
    \cup {Many(<<n, m>>) : n \in names, m \in names}

----------------------------------------------------------------------------
(* Optional values *)

Null == <<>>
Some(v) == <<v>>
Truthy(o) == o # <<>>
Val(o) == o[1]

Max(a, b) == IF a >= b THEN a ELSE b

\* Math.ceil(a / b) for b > 0
Ceil(a, b) == IF a >= 0 THEN (a + b - 1) \div b ELSE -((-a) \div b)

----------------------------------------------------------------------------
(* Web Storage: a map from keys to text, absent keys read as null *)

EmptyStorage == [k \in StorageKeys |-> Null]
getItem(storage, k) == storage[k]
setItem(storage, k, text) == [storage EXCEPT ![k] = Some(text)]
removeItem(storage, k) == [storage EXCEPT ![k] = Null]

\* a || b on two getItem results
OrElse(a, b) == IF Truthy(a) THEN a ELSE b

(* Text conversions.  JSON text of a session record; String(n) of a number *)
JSONstringifySession(s) == [kind |-> "json", token |-> s.token, expiresAt |-> s.expiresAt]
JSONparses(text) == text.kind = "json"
JSONparseSession(text) == [token |-> text.token, expiresAt |-> text.expiresAt]
JSONstringifyUser(u) == [kind |-> "json", user |-> u]
JSONparseUser(text) == text.user
NumberToString(n) == [dec |-> n]
parseInt(text) == text.dec

----------------------------------------------------------------------------
(* The instance together with the storage scopes and timers it acts on.    *)
(* Every method is a function from this record (and the clock) to the      *)
(* record after the call, with the returned value where there is one.      *)

World == [session |-> session, user |-> user, csrfToken |-> csrfToken,
          loginAttempts |-> loginAttempts, lockoutUntil |-> lockoutUntil,
          refreshTimer |-> refreshTimer, timers |-> timers, ss |-> ss, ls |-> ls,
          listeners |-> listeners, started |-> <<>>, dispatched |-> <<>>]

Commit(w) ==
    /\ session' = w.session
    /\ user' = w.user
    /\ csrfToken' = w.csrfToken
    /\ loginAttempts' = w.loginAttempts
    /\ lockoutUntil' = w.lockoutUntil
    /\ refreshTimer' = w.refreshTimer
    /\ timers' = w.timers
    /\ ss' = w.ss
    /\ ls' = w.ls
    /\ listeners' = w.listeners
    /\ started' = w.started
    /\ dispatched' = w.dispatched
    /\ UNCHANGED req

\* a step that runs neither startSession nor clearSession and leaves the listeners
Silent ==
    /\ started' = <<>>
    /\ dispatched' = <<>>
    /\ UNCHANGED <<listeners, regs, req>>

\* clearTimeout(handle): cancels the pending timer the handle names, if any
RECURSIVE RemoveOne(_, _)
RemoveOne(seq, x) ==
    IF seq = <<>> THEN <<>>
    ELSE IF Head(seq) = x THEN Tail(seq)
    ELSE <<Head(seq)>> \o RemoveOne(Tail(seq), x)

clearTimeout(pending, handle) == RemoveOne(pending, handle)

\* a delay without the floor of one minute
RefreshDelayNoFloor(expiresIn) ==
    ((IF expiresIn # 0 THEN expiresIn ELSE MAX_AGE) - RENEW_MARGIN) * MS_PER_SECOND

\* setupAutoRefresh(expiresIn); expiresIn = 0 stands for a missing argument
RefreshDelay(expiresIn) ==
    Max((IF expiresIn # 0 THEN expiresIn ELSE MAX_AGE) - RENEW_MARGIN, MIN_REFRESH)
        * MS_PER_SECOND

\* a re-arm that leaves the timer armed before
setupAutoRefreshNoCancel(w, expiresIn) ==
    LET fireAt == now + RefreshDelay(expiresIn)
    IN  [w EXCEPT !.timers = Append(w.timers, fireAt), !.refreshTimer = fireAt]

setupAutoRefresh(w, expiresIn) ==
    LET kept == IF w.refreshTimer # 0 THEN clearTimeout(w.timers, w.refreshTimer)
                ELSE w.timers
        fireAt == now + RefreshDelay(expiresIn)
    IN  [w EXCEPT !.timers = Append(kept, fireAt), !.refreshTimer = fireAt]

\* getSession(): the value returned
getSessionValue(w) ==
    IF Truthy(w.session) THEN w.session
    ELSE LET sessionData == OrElse(getItem(w.ss, SESSION_KEY), getItem(w.ls, SESSION_KEY))
         IN  IF ~Truthy(sessionData) THEN Null
             ELSE IF ~JSONparses(Val(sessionData)) THEN Null
             ELSE LET s == JSONparseSession(Val(sessionData))
                  IN  IF s.expiresAt # 0 /\ s.expiresAt < now THEN Null ELSE Some(s)

isAuthenticated(w) == Truthy(getSessionValue(w))

\* getUser()
getUser(w) ==
    IF w.user # NoUser THEN w.user
    ELSE LET userData == OrElse(getItem(w.ss, USER_KEY), getItem(w.ls, USER_KEY))
         IN  IF ~Truthy(userData) THEN NoUser ELSE JSONparseUser(Val(userData))

\* getCSRFToken()
getCSRFToken(w) ==
    IF w.csrfToken # NoCsrf THEN w.csrfToken
    ELSE LET stored == OrElse(getItem(w.ss, CSRF_KEY), getItem(w.ls, CSRF_KEY))
         IN  IF Truthy(stored) THEN Val(stored) ELSE NoCsrf

\* What a subscriber finds when it looks at the instance and the storage
\* scopes while an event is delivered to it
View(w) ==
    [isAuthenticated |-> isAuthenticated(w), user |-> getUser(w),
     session |-> w.session, csrfToken |-> w.csrfToken,
     ss |-> [k \in SessionKeys |-> getItem(w.ss, k)],
     ls |-> [k \in SessionKeys |-> getItem(w.ls, k)],
     refreshTimer |-> w.refreshTimer, timers |-> w.timers]

\* the detail object a caller passes: a key it leaves out is null
Detail(isAuth, u) == [isAuthenticated |-> isAuth, user |-> u]

\* the listeners due, the one added last first
DueNewestFirst(registered, eventName) ==
    LET due == SelectSeq(registered, LAMBDA l : l.name = eventName /\ ~l.removed)
    IN  [i \in 1..Len(due) |-> due[Len(due) + 1 - i]]

\* the listeners an event of this name is due to, in registration order
Due(registered, eventName) ==
    SelectSeq(registered, LAMBDA l : l.name = eventName /\ ~l.removed)

\* dispatchAuthEvent(eventName, detail): the detail is isAuthenticated() and
\* getUser() overridden by the keys of the detail passed; window.dispatchEvent
\* calls the listeners of that name in the order they were added, and a
\* listener added with once is removed when it is called.  At both call sites
\* getSession() is free of side effects (the session is cached, or the
\* storage scopes hold none).
dispatchAuthEvent(w, eventName, detail) ==
    LET due == Due(w.listeners, eventName)
        event == [name |-> eventName,
                  isAuthenticated |-> IF Truthy(detail.isAuthenticated)
                                      THEN Val(detail.isAuthenticated)
                                      ELSE isAuthenticated(w),
                  user |-> IF Truthy(detail.user) THEN Val(detail.user) ELSE getUser(w),
                  receivers |-> [i \in 1..Len(due) |-> due[i].id],
                  seen |-> View(w)]
        left == [i \in 1..Len(w.listeners) |->
                    IF w.listeners[i].name = eventName /\ w.listeners[i].once
                    THEN [w.listeners[i] EXCEPT !.removed = TRUE]
                    ELSE w.listeners[i]]
    IN  [w EXCEPT !.listeners = left, !.dispatched = Append(@, event)]

\* on(eventName, callback, options): the listener added, named by its rank
on(registered, id, eventName, once) ==
    Append(registered, [id |-> id, name |-> eventName, once |-> once, removed |-> FALSE])

\* the function on() returned: removeEventListener for that handler
off(registered, id) == SelectSeq(registered, LAMBDA l : l.id # id)

\* a clearSession that forgets the persistent scope
clearSessionShortLivedOnly(w) ==
    LET ss1 == removeItem(removeItem(removeItem(w.ss, SESSION_KEY), USER_KEY), CSRF_KEY)
        w1 == [w EXCEPT !.ss = ss1,
                        !.session = Null, !.user = NoUser, !.csrfToken = NoCsrf,
                        !.timers = IF w.refreshTimer # 0
                                   THEN clearTimeout(w.timers, w.refreshTimer)
                                   ELSE w.timers,
                        !.refreshTimer = 0]
    IN  dispatchAuthEvent(w1, AUTH_CHANGE, Detail(Some(FALSE), Null))

\* a clearSession that publishes the event before it clears anything
clearSessionDispatchFirst(w) ==
    LET w0 == dispatchAuthEvent(w, AUTH_CHANGE, Detail(Some(FALSE), Null))
        ss1 == removeItem(removeItem(removeItem(w0.ss, SESSION_KEY), USER_KEY), CSRF_KEY)
        ls1 == removeItem(removeItem(removeItem(w0.ls, SESSION_KEY), USER_KEY), CSRF_KEY)
    IN  [w0 EXCEPT !.ss = ss1, !.ls = ls1,
                   !.session = Null, !.user = NoUser, !.csrfToken = NoCsrf,
                   !.timers = IF w0.refreshTimer # 0
                              THEN clearTimeout(w0.timers, w0.refreshTimer)
                              ELSE w0.timers,
                   !.refreshTimer = 0]

\* a clearSession that keeps this.user
clearSessionKeepsUser(w) ==
    LET ss1 == removeItem(removeItem(removeItem(w.ss, SESSION_KEY), USER_KEY), CSRF_KEY)
        ls1 == removeItem(removeItem(removeItem(w.ls, SESSION_KEY), USER_KEY), CSRF_KEY)
        w1 == [w EXCEPT !.ss = ss1, !.ls = ls1,
                        !.session = Null, !.csrfToken = NoCsrf,
                        !.timers = IF w.refreshTimer # 0
                                   THEN clearTimeout(w.timers, w.refreshTimer)
                                   ELSE w.timers,
                        !.refreshTimer = 0]
    IN  dispatchAuthEvent(w1, AUTH_CHANGE, Detail(Some(FALSE), Null))

\* clearSession()
clearSession(w) ==
    LET ss1 == removeItem(removeItem(removeItem(w.ss, SESSION_KEY), USER_KEY), CSRF_KEY)
        ls1 == removeItem(removeItem(removeItem(w.ls, SESSION_KEY), USER_KEY), CSRF_KEY)
        w1 == [w EXCEPT !.ss = ss1, !.ls = ls1,
                        !.session = Null, !.user = NoUser, !.csrfToken = NoCsrf,
                        !.timers = IF w.refreshTimer # 0
                                   THEN clearTimeout(w.timers, w.refreshTimer)
                                   ELSE w.timers,
                        !.refreshTimer = 0]
    IN  dispatchAuthEvent(w1, AUTH_CHANGE, Detail(Some(FALSE), Null))

\* getSession(): the state it leaves (an expired or unparsable record is evicted)
getSessionEffect(w) ==
    IF Truthy(w.session) THEN w
    ELSE LET sessionData == OrElse(getItem(w.ss, SESSION_KEY), getItem(w.ls, SESSION_KEY))
         IN  IF ~Truthy(sessionData) THEN w
             ELSE IF ~JSONparses(Val(sessionData)) THEN clearSession(w)
             ELSE LET s == JSONparseSession(Val(sessionData))
                  IN  IF s.expiresAt # 0 /\ s.expiresAt < now THEN clearSession(w) ELSE w

\* a startSession that takes the seconds of expiresIn for milliseconds
startSessionSeconds(w, token, u, expiresIn, rememberMe, csrf) ==
    LET expiresAt == now + expiresIn
        s == [token |-> token, expiresAt |-> expiresAt]
        w1 == [w EXCEPT !.session = Some(s), !.user = u, !.csrfToken = csrf,
                        !.started = Some([token |-> token, user |-> u,
                                          expiresIn |-> expiresIn,
                                          rememberMe |-> rememberMe, csrf |-> csrf])]
        ssA == IF rememberMe THEN w1.ss
               ELSE setItem(setItem(w1.ss, SESSION_KEY, JSONstringifySession(s)),
                            USER_KEY, JSONstringifyUser(u))
        lsA == IF rememberMe
               THEN setItem(setItem(w1.ls, SESSION_KEY, JSONstringifySession(s)),
                            USER_KEY, JSONstringifyUser(u))
               ELSE w1.ls
        w2 == [w1 EXCEPT !.ss = setItem(ssA, CSRF_KEY, csrf),
                         !.ls = setItem(lsA, CSRF_KEY, csrf)]
        w3 == setupAutoRefresh(w2, expiresIn)
    IN  dispatchAuthEvent(w3, AUTH_CHANGE, Detail(Some(TRUE), Some(u)))

\* startSession({token, user, expiresIn}, rememberMe) with the CSRF token drawn
startSession(w, token, u, expiresIn, rememberMe, csrf) ==
    LET expiresAt == now + expiresIn * MS_PER_SECOND
        s == [token |-> token, expiresAt |-> expiresAt]
        w1 == [w EXCEPT !.session = Some(s), !.user = u, !.csrfToken = csrf,
                        !.started = Some([token |-> token, user |-> u,
                                          expiresIn |-> expiresIn,
                                          rememberMe |-> rememberMe, csrf |-> csrf])]
        ssA == IF rememberMe THEN w1.ss
               ELSE setItem(setItem(w1.ss, SESSION_KEY, JSONstringifySession(s)),
                            USER_KEY, JSONstringifyUser(u))
        lsA == IF rememberMe
               THEN setItem(setItem(w1.ls, SESSION_KEY, JSONstringifySession(s)),
                            USER_KEY, JSONstringifyUser(u))
               ELSE w1.ls
        w2 == [w1 EXCEPT !.ss = setItem(ssA, CSRF_KEY, csrf),
                         !.ls = setItem(lsA, CSRF_KEY, csrf)]
        w3 == setupAutoRefresh(w2, expiresIn)
    IN  dispatchAuthEvent(w3, AUTH_CHANGE, Detail(Some(TRUE), Some(u)))

\* The errors object of a rejected registration: fields in key order, each a
\* message or an array of messages; Null when the error carries none
LINE_BREAK == "\n"
Field(key, value) == [key |-> key, value |-> value]
ErrorBodies ==
    {Null,
     Some(<<>>),
     Some(<<Field("email", One("taken"))>>),
     Some(<<Field("email", Many(<<"taken", "invalid">>)), Field("name", One("required"))>>),
     Some(<<Field("email", Many(<<>>)), Field("password", Many(<<"weak">>))>>)}

\* Object.values(errors): the values of the fields in the order of the keys
ObjectValues(fields) == [i \in 1..Len(fields) |-> fields[i].value]

\* Array.prototype.flat(): the elements of the arrays among the values take
\* the place of their array, one level deep
RECURSIVE flat(_)
flat(values) ==
    IF values = <<>> THEN <<>>
    ELSE (IF Head(values).isArray THEN Head(values).v ELSE <<Head(values).v>>)
         \o flat(Tail(values))

\* Array.prototype.join(separator): a text is the sequence of its pieces
RECURSIVE join(_, _)
join(arr, separator) ==
    IF arr = <<>> THEN <<>>
    ELSE IF Len(arr) = 1 THEN <<arr[1]>>
    ELSE <<arr[1], separator>> \o join(Tail(arr), separator)

\* Array.isArray(x) ? x : [x]
AsArray(x) == IF x.isArray THEN x.v ELSE <<x.v>>

\* Array.prototype.includes
includes(arr, x) == \E i \in 1..Len(arr) : arr[i] = x

\* a check that asks for all of the roles
hasRoleEvery(w, role) ==
    LET u == getUser(w)
    IN  IF u = NoUser \/ ~Truthy(UserObjects[u].roles) THEN FALSE
        ELSE LET userRoles == AsArray(Val(UserObjects[u].roles))
                 rolesToCheck == AsArray(role)
             IN  \A i \in 1..Len(rolesToCheck) : includes(userRoles, rolesToCheck[i])

\* hasRole(role)
hasRole(w, role) ==
    LET u == getUser(w)
    IN  IF u = NoUser \/ ~Truthy(UserObjects[u].roles) THEN FALSE
        ELSE LET userRoles == AsArray(Val(UserObjects[u].roles))
                 rolesToCheck == AsArray(role)
             \* rolesToCheck.some(r => userRoles.includes(r))
             IN  \E i \in 1..Len(rolesToCheck) : includes(userRoles, rolesToCheck[i])

\* hasPermission(permission)
hasPermission(w, permission) ==
    LET u == getUser(w)
    IN  IF u = NoUser \/ ~Truthy(UserObjects[u].permissions) THEN FALSE
        ELSE LET userPermissions == AsArray(Val(UserObjects[u].permissions))
                 permsToCheck == AsArray(permission)
             \* permsToCheck.every(p => userPermissions.includes(p))
             IN  \A i \in 1..Len(permsToCheck) : includes(userPermissions, permsToCheck[i])

----------------------------------------------------------------------------
(* Attempt tracker *)

\* getLoginAttempts(): parseInt(getItem(...) || '0', 10)
getLoginAttempts(w) ==
    parseInt(Val(OrElse(getItem(w.ss, LOGIN_ATTEMPTS_KEY), Some(NumberToString(0)))))

\* getLockoutTime()
getLockoutTime(w) ==
    LET lockoutTime == getItem(w.ss, LOCKOUT_UNTIL_KEY)
    IN  IF Truthy(lockoutTime) THEN parseInt(Val(lockoutTime)) ELSE 0

\* a reset that forgets the lockout window
resetLoginAttemptsCounterOnly(w) ==
    [w EXCEPT !.loginAttempts = 0,
              !.ss = removeItem(w.ss, LOGIN_ATTEMPTS_KEY)]

resetLoginAttempts(w) ==
    [w EXCEPT !.loginAttempts = 0,
              !.ss = removeItem(removeItem(w.ss, LOGIN_ATTEMPTS_KEY), LOCKOUT_UNTIL_KEY),
              !.lockoutUntil = 0]

recordFailedLoginAttempt(w) ==
    LET n == getLoginAttempts(w) + 1
    IN  [w EXCEPT !.loginAttempts = n,
                  !.ss = setItem(w.ss, LOGIN_ATTEMPTS_KEY, NumberToString(n))]

\* a lockout whose minutes are taken for seconds
lockAccountSeconds(w) ==
    LET until == now + LOCKOUT_TIME * MS_PER_SECOND
    IN  [w EXCEPT !.lockoutUntil = until,
                  !.ss = setItem(w.ss, LOCKOUT_UNTIL_KEY, NumberToString(until))]

lockAccount(w) ==
    LET until == now + LOCKOUT_TIME * 60 * MS_PER_SECOND
    IN  [w EXCEPT !.lockoutUntil = until,
                  !.ss = setItem(w.ss, LOCKOUT_UNTIL_KEY, NumberToString(until))]

\* a gate whose comparison is turned around
isLockedOutInverted(w) ==
    LET w1 == IF w.lockoutUntil = 0
              THEN [w EXCEPT !.lockoutUntil = getLockoutTime(w)] ELSE w
        locked == w1.lockoutUntil # 0 /\ w1.lockoutUntil < now
    IN  [ret |-> locked,
         found |-> w1.lockoutUntil,
         w |-> IF locked THEN w1
               ELSE IF w1.lockoutUntil # 0 THEN resetLoginAttempts(w1) ELSE w1]

\* isLockedOut(): the value returned, the lockout time it found and the state it leaves
isLockedOut(w) ==
    LET w1 == IF w.lockoutUntil = 0
              THEN [w EXCEPT !.lockoutUntil = getLockoutTime(w)] ELSE w
        locked == w1.lockoutUntil # 0 /\ w1.lockoutUntil > now
    IN  [ret |-> locked,
         found |-> w1.lockoutUntil,
         w |-> IF locked THEN w1
               ELSE IF w1.lockoutUntil # 0 THEN resetLoginAttempts(w1) ELSE w1]

\* new AuthService() on a freshly loaded page over the given storage scopes
Constructor(sessionStorage, localStorage) ==
    LET w0 == [session |-> Null, user |-> NoUser, csrfToken |-> NoCsrf,
               loginAttempts |-> 0, lockoutUntil |-> 0, refreshTimer |-> 0,
               timers |-> <<>>, ss |-> sessionStorage, ls |-> localStorage,
               listeners |-> <<>>, started |-> <<>>, dispatched |-> <<>>]
        w1 == [getSessionEffect(w0) EXCEPT !.session = getSessionValue(w0)]
        w2 == [w1 EXCEPT !.user = getUser(w1)]
        w3 == [w2 EXCEPT !.csrfToken = getCSRFToken(w2)]
        w4 == [w3 EXCEPT !.loginAttempts = getLoginAttempts(w3)]
        w5 == [w4 EXCEPT !.lockoutUntil = getLockoutTime(w4)]
    IN  setupAutoRefresh(w5, 0)

----------------------------------------------------------------------------
(* SecureStorage: the exported instances localStore (over localStorage)    *)
(* and sessionStore (over sessionStorage), both constructed with encrypt.  *)
(* A JavaScript value is a string; "undefined" and "null" stand for        *)
(* undefined and null.  A stored text is a record: kind "json" for JSON    *)
(* text (of an object with the members value and options it carries, or of *)
(* something that is no object), kind "base64" for the envelope encrypt()  *)
(* writes, kind "garbage" for text that is neither.                        *)

Undefined == "undefined"
JsNull == "null"
Scopes == {"local", "session"}
StoreValues == {"v1", JsNull}
StoreDefaults == {"d1", Undefined}
StoreExpiresIn == {0, 30, 90}

\* this.encryptionKey: the token ensureEncryptionKey() drew for the scope
encryptionKey(scope) == [token |-> "key", scope |-> scope]

\* hash(str): taken to be free of collisions
hash(str, key) == [text |-> str, key |-> key]

\* JSON.stringify(storageItem)
JSONstringifyItem(storageItem) ==
    [kind |-> "json", isObject |-> TRUE,
     value |-> Some(storageItem.value), options |-> Some(storageItem.options)]

\* encrypt(value) of an instance constructed with encrypt
encrypt(value, scope) ==
    [kind |-> "base64", v |-> value, t |-> now, h |-> hash(value, encryptionKey(scope))]

\* decrypt(encrypted): null on a hash that does not fit, the text itself
\* when it cannot be decoded
decrypt(encrypted, scope) ==
    IF encrypted.kind # "base64" THEN Some(encrypted)
    ELSE IF encrypted.h # hash(encrypted.v, encryptionKey(scope)) THEN Null
    ELSE Some(encrypted.v)

\* the two JSON.parse calls of get() and has() and the member reads that
\* follow: the parsed item, or a throw.  JSON.parse(null) is null, and
\* reading options of null, or expiresAt of a missing options, throws.
ParseItem(item, scope) ==
    LET text == IF JSONparses(item) THEN Some(item) ELSE decrypt(item, scope)
    IN  IF ~Truthy(text) THEN [throws |-> TRUE]
        ELSE IF ~JSONparses(Val(text)) THEN [throws |-> TRUE]
        ELSE IF ~Val(text).isObject \/ ~Truthy(Val(text).options) THEN [throws |-> TRUE]
        ELSE [throws |-> FALSE, value |-> Val(text).value,
              options |-> Val(Val(text).options)]

\* remove(key)
remove(storage, key) == removeItem(storage, STORAGE_PREFIX \o key)

\* set(key, value, options): expiresIn = 0 stands for no expiresIn, and
\* encryptOption is the encrypt the item is stored with
set(storage, scope, key, value, expiresIn, encryptOption) ==
    LET prefixedKey == STORAGE_PREFIX \o key
        storageItem == [value |-> value,
                        options |-> [expiresAt |-> IF expiresIn # 0
                                                   THEN now + expiresIn * MS_PER_SECOND
                                                   ELSE 0,
                                     encrypted |-> encryptOption,
                                     createdAt |-> now]]
        serialized == JSONstringifyItem(storageItem)
        finalValue == IF encryptOption THEN encrypt(serialized, scope) ELSE serialized
    IN  [ret |-> TRUE, storage |-> setItem(storage, prefixedKey, finalValue)]

\* a get that answers an expired record with the default and keeps it
getKeepsExpired(storage, scope, key, defaultArg) ==
    LET defaultValue == IF defaultArg = Undefined THEN JsNull ELSE defaultArg
        item == getItem(storage, STORAGE_PREFIX \o key)
    IN  IF item = Null THEN [ret |-> defaultValue, storage |-> storage]
        ELSE LET parsed == ParseItem(Val(item), scope)
             IN  IF parsed.throws
                 THEN [ret |-> defaultValue, storage |-> remove(storage, key)]
                 ELSE IF parsed.options.expiresAt # 0 /\ parsed.options.expiresAt < now
                 THEN [ret |-> defaultValue, storage |-> storage]
                 ELSE [ret |-> IF Truthy(parsed.value) THEN Val(parsed.value)
                               ELSE defaultValue,
                       storage |-> storage]

\* get(key, defaultValue = null): an argument of undefined takes the default null
get(storage, scope, key, defaultArg) ==
    LET defaultValue == IF defaultArg = Undefined THEN JsNull ELSE defaultArg
        item == getItem(storage, STORAGE_PREFIX \o key)
    IN  IF item = Null THEN [ret |-> defaultValue, storage |-> storage]
        ELSE LET parsed == ParseItem(Val(item), scope)
             IN  IF parsed.throws
                 THEN [ret |-> defaultValue, storage |-> remove(storage, key)]
                 ELSE IF parsed.options.expiresAt # 0 /\ parsed.options.expiresAt < now
                 THEN [ret |-> defaultValue, storage |-> remove(storage, key)]
                 ELSE [ret |-> IF Truthy(parsed.value) THEN Val(parsed.value)
                               ELSE defaultValue,
                       storage |-> storage]

\* has(key): a record that cannot be read is answered false and kept
has(storage, scope, key) ==
    LET item == getItem(storage, STORAGE_PREFIX \o key)
    IN  IF item = Null THEN [ret |-> FALSE, storage |-> storage]
        ELSE LET parsed == ParseItem(Val(item), scope)
             IN  IF parsed.throws THEN [ret |-> FALSE, storage |-> storage]
                 ELSE IF parsed.options.expiresAt # 0 /\ parsed.options.expiresAt < now
                 THEN [ret |-> FALSE, storage |-> remove(storage, key)]
                 ELSE [ret |-> TRUE, storage |-> storage]

\* setExpiration(key, expiresIn)
setExpiration(storage, scope, key, expiresIn) ==
    LET got == get(storage, scope, key, Undefined)
    IN  IF got.ret = Undefined THEN [ret |-> FALSE, storage |-> got.storage]
        ELSE set(got.storage, scope, key, got.ret, expiresIn, TRUE)

\* Records no set() of these values writes, as another script of the page,
\* another tab or a damaged profile may leave them: text that is no JSON
\* and no envelope, an envelope whose content was changed, JSON of a
\* number, JSON of an object without options, and JSON of an object with
\* options but without a value.
CorruptTexts(scope) ==
    {[kind |-> "garbage"],
     [kind |-> "base64",
      v |-> [kind |-> "json", isObject |-> TRUE, value |-> Some("v2"),
             options |-> Some([expiresAt |-> 0, encrypted |-> TRUE, createdAt |-> 0])],
      t |-> 0,
      h |-> hash([kind |-> "json", isObject |-> TRUE, value |-> Some("v1"),
                  options |-> Some([expiresAt |-> 0, encrypted |-> TRUE, createdAt |-> 0])],
                 encryptionKey(scope))],
     [kind |-> "json", isObject |-> FALSE, value |-> Null, options |-> Null],
     [kind |-> "json", isObject |-> TRUE, value |-> Some("v1"), options |-> Null],
     [kind |-> "json", isObject |-> TRUE, value |-> Null,
      options |-> Some([expiresAt |-> 0, encrypted |-> FALSE, createdAt |-> 0])]}

----------------------------------------------------------------------------
(* HttpClient.request: the retry loop around fetch.  The call in flight is *)
(* where it is suspended (at the fetch, or at the delay before a retry),   *)
(* its locals retries and attempts, how many fetches it has made, the      *)
(* error caught last with the time it was caught, and how the call ended.  *)

RETRY_DELAY == 1000
RetriesValues == {0, 2}
HttpStatuses == {200, 404, 503}

\* createError(...) for a response validateStatus refuses; what fetch rejects
\* with when the network fails; what it rejects with once the timeout aborts
HttpError(status) ==
    [response |-> Some([status |-> status]), code |-> "none",
     message |-> "Request failed with status code"]
NetworkFailure == [response |-> Null, code |-> "none", message |-> "Failed to fetch"]
TimeoutAbort == [response |-> Null, code |-> "none", message |-> "Timeout exceeded"]
Answers == {Some(status) : status \in HttpStatuses} \cup {Null}
Rejections == {NetworkFailure, TimeoutAbort}

\* DEFAULT_OPTIONS.validateStatus
validateStatus(status) == status >= 200 /\ status < 300

\* isRetryableError(error)
isRetryableError(error) ==
    \/ ~Truthy(error.response)
    \/ error.code = "ECONNABORTED"
    \/ error.code = "ETIMEDOUT"
    \/ error.message = "Network Error"
    \/ (Val(error.response).status >= 500 /\ Val(error.response).status < 600)

IdleRequest ==
    [at |-> "idle", retries |-> 0, attempts |-> 0, fetches |-> 0, error |-> Null,
     since |-> 0, wake |-> 0, outcome |-> "none"]

\* the catch of the loop: counts the attempt, then throws or waits
catchError(r, error) ==
    LET attempts == r.attempts + 1
    IN  IF attempts > r.retries \/ isRetryableError(error)
        THEN [r EXCEPT !.at = "done", !.attempts = attempts, !.error = Some(error),
                       !.since = now, !.outcome = "thrown"]
        ELSE [r EXCEPT !.at = "delay", !.attempts = attempts, !.error = Some(error),
                       !.since = now, !.wake = now + RETRY_DELAY * attempts]

----------------------------------------------------------------------------
(* Asynchronous calls in flight: the operation, where it is suspended, and *)
(* the rememberMe argument it was called with.                             *)

Call(op, at, rememberMe) == [op |-> op, at |-> at, rememberMe |-> rememberMe]

CallKinds ==
    {Call("login", at, rm) : at \in {"hash", "post"}, rm \in BOOLEAN}
    \cup {Call("register", at, FALSE) : at \in {"hash", "post"}}
    \cup {Call("refresh", "post", FALSE), Call("logout", "post", FALSE)}

RECURSIVE SumOver(_, _)
SumOver(f, S) ==
    IF S = {} THEN 0
    ELSE LET x == CHOOSE y \in S : TRUE IN f[x] + SumOver(f, S \ {x})

InFlight == SumOver(calls, CallKinds)

Suspend(c, k) == [c EXCEPT ![k] = @ + 1]
Resume(c, k) == [c EXCEPT ![k] = @ - 1]

\* what the frame claims of login() speak of: everything but the timers
Frame(w) == [session |-> w.session, user |-> w.user, csrfToken |-> w.csrfToken,
             loginAttempts |-> w.loginAttempts, lockoutUntil |-> w.lockoutUntil,
             ss |-> w.ss, ls |-> w.ls]

\* The step taken: the operation, how it ended ("pending" when it suspended),
\* the user it returned, and a number: the minutes of a lockout error, the
\* attempts remaining of an InvalidCredentials error, the attempt counter an
\* accepted login found, the lockout time isLockedOut() found.
Event(op, outcome, val, usr) == [op |-> op, outcome |-> outcome, val |-> val, usr |-> usr]

----------------------------------------------------------------------------
Init ==
    /\ now = 0
    /\ ticks = 0
    /\ LET c == Constructor(EmptyStorage, EmptyStorage)
       IN  /\ session = c.session
           /\ user = c.user
           /\ csrfToken = c.csrfToken
           /\ loginAttempts = c.loginAttempts
           /\ lockoutUntil = c.lockoutUntil
           /\ refreshTimer = c.refreshTimer
           /\ timers = c.timers
           /\ ss = c.ss
           /\ ls = c.ls
           /\ listeners = c.listeners
           /\ started = c.started
           /\ dispatched = c.dispatched
    /\ regs = 0
    /\ calls = [k \in CallKinds |-> 0]
    /\ snap = Null
    /\ req = IdleRequest
    /\ ev = Event("new", "ok", 0, NoUser)

\* the clock advances
Tick(d) ==
    /\ ticks < MaxTicks
    /\ now' = now + d
    /\ ticks' = ticks + 1
    /\ ev' = Event("tick", "ok", 0, NoUser)
    /\ UNCHANGED <<session, user, csrfToken, loginAttempts, lockoutUntil,
                   refreshTimer, timers, ss, ls, calls, snap>>
    /\ Silent

\* login(email, password, rememberMe) up to its first suspension: the lockout gate
LoginCall(rememberMe) ==
    LET gate == isLockedOut(World)
    IN  /\ snap' = IF InFlight = 0 THEN Some(Frame(World)) ELSE Null
        /\ UNCHANGED <<now, ticks, regs>>
        /\ IF gate.ret
           THEN /\ Commit(gate.w)
                /\ ev' = Event("login", "TooManyAttempts",
                               Ceil(gate.w.lockoutUntil - now, MS_PER_MINUTE), NoUser)
                /\ UNCHANGED calls
           ELSE /\ InFlight < MaxCalls
                /\ Commit(gate.w)
                /\ calls' = Suspend(calls, Call("login", "hash", rememberMe))
                /\ ev' = Event("login.call", "pending", 0, NoUser)

\* hashPassword resolves: the login request is sent
LoginPost(rememberMe) ==
    /\ calls[Call("login", "hash", rememberMe)] > 0
    /\ calls' = Suspend(Resume(calls, Call("login", "hash", rememberMe)),
                        Call("login", "post", rememberMe))
    /\ ev' = Event("login.post", "pending", 0, NoUser)
    /\ UNCHANGED <<now, ticks, session, user, csrfToken, loginAttempts, lockoutUntil,
                   refreshTimer, timers, ss, ls, snap>>
    /\ Silent

\* the login endpoint accepts: startSession, resetLoginAttempts, return response.user
LoginAccepted(rememberMe, token, u, expiresIn, csrf) ==
    /\ calls[Call("login", "post", rememberMe)] > 0
    /\ calls' = Resume(calls, Call("login", "post", rememberMe))
    /\ LET w1 == startSession(World, token, u,
                              IF expiresIn # 0 THEN expiresIn ELSE MAX_AGE,
                              rememberMe, csrf)
       IN  Commit(resetLoginAttempts(w1))
    /\ ev' = Event("login", "ok", getLoginAttempts(World), u)
    /\ UNCHANGED <<now, ticks, regs, snap>>

\* a catch block that locks one failure late
LoginRejected401Late(w) ==
    LET w1 == recordFailedLoginAttempt(w)
        remainingAttempts == MAX_ATTEMPTS - w1.loginAttempts
    IN  IF remainingAttempts < 0
        THEN [w |-> lockAccount(w1), outcome |-> "AccountLocked", val |-> LOCKOUT_TIME]
        ELSE [w |-> w1, outcome |-> "InvalidCredentials", val |-> remainingAttempts]

\* a catch block that counts the attempts remaining before it records the failure
LoginRejected401Before(w) ==
    LET w1 == recordFailedLoginAttempt(w)
        remainingAttempts == MAX_ATTEMPTS - w.loginAttempts
    IN  IF MAX_ATTEMPTS - w1.loginAttempts <= 0
        THEN [w |-> lockAccount(w1), outcome |-> "AccountLocked", val |-> LOCKOUT_TIME]
        ELSE [w |-> w1, outcome |-> "InvalidCredentials", val |-> remainingAttempts]

\* the catch block of login for an error with status 401
LoginRejected401(w) ==
    LET w1 == recordFailedLoginAttempt(w)
        remainingAttempts == MAX_ATTEMPTS - w1.loginAttempts
    IN  IF remainingAttempts <= 0
        THEN [w |-> lockAccount(w1), outcome |-> "AccountLocked", val |-> LOCKOUT_TIME]
        ELSE [w |-> w1, outcome |-> "InvalidCredentials", val |-> remainingAttempts]

\* the login endpoint answers 401
LoginUnauthorized(rememberMe) ==
    /\ calls[Call("login", "post", rememberMe)] > 0
    /\ calls' = Resume(calls, Call("login", "post", rememberMe))
    /\ LET r == LoginRejected401(World)
       IN  /\ Commit(r.w)
           /\ ev' = Event("login", r.outcome, r.val, NoUser)
    /\ UNCHANGED <<now, ticks, regs, snap>>

\* a catch block that counts every failure, whatever its status
LoginFailedCounted(rememberMe) ==
    /\ calls[Call("login", "post", rememberMe)] > 0
    /\ calls' = Resume(calls, Call("login", "post", rememberMe))
    /\ Commit(recordFailedLoginAttempt(World))
    /\ ev' = Event("login", "error", 0, NoUser)
    /\ UNCHANGED <<now, ticks, regs, snap>>

\* the login request fails otherwise (network, server): the error is rethrown
LoginFailed(rememberMe) ==
    /\ calls[Call("login", "post", rememberMe)] > 0
    /\ calls' = Resume(calls, Call("login", "post", rememberMe))
    /\ ev' = Event("login", "error", 0, NoUser)
    /\ UNCHANGED <<now, ticks, session, user, csrfToken, loginAttempts, lockoutUntil,
                   refreshTimer, timers, ss, ls, snap>>
    /\ Silent

\* logout(): clearSession, then the notification is posted and not awaited.
\* The navigation logout(true) asks for is the page load of Reload.
Logout ==
    /\ InFlight < MaxCalls
    /\ Commit(clearSession(World))
    /\ calls' = Suspend(calls, Call("logout", "post", FALSE))
    /\ snap' = Null
    /\ ev' = Event("logout", "ok", IF isAuthenticated(World) THEN 1 ELSE 0, NoUser)
    /\ UNCHANGED <<now, ticks, regs>>

\* the logout notification is answered, or it fails and the failure is logged
LogoutAnswered(rejected) ==
    /\ calls[Call("logout", "post", FALSE)] > 0
    /\ calls' = Resume(calls, Call("logout", "post", FALSE))
    /\ snap' = Null
    /\ ev' = Event("logout.post", IF rejected THEN "logged" ELSE "ok", 0, NoUser)
    /\ UNCHANGED <<now, ticks, session, user, csrfToken, loginAttempts, lockoutUntil,
                   refreshTimer, timers, ss, ls>>
    /\ Silent

\* register(userData): hashes the password when there is one, else posts at once
RegisterCall(hasPassword) ==
    /\ InFlight < MaxCalls
    /\ calls' = Suspend(calls, Call("register", IF hasPassword THEN "hash" ELSE "post", FALSE))
    /\ snap' = Null
    /\ ev' = Event("register.call", "pending", 0, NoUser)
    /\ UNCHANGED <<now, ticks, session, user, csrfToken, loginAttempts, lockoutUntil,
                   refreshTimer, timers, ss, ls>>
    /\ Silent

RegisterPost ==
    /\ calls[Call("register", "hash", FALSE)] > 0
    /\ calls' = Suspend(Resume(calls, Call("register", "hash", FALSE)),
                        Call("register", "post", FALSE))
    /\ snap' = Null
    /\ ev' = Event("register.post", "pending", 0, NoUser)
    /\ UNCHANGED <<now, ticks, session, user, csrfToken, loginAttempts, lockoutUntil,
                   refreshTimer, timers, ss, ls>>
    /\ Silent

\* a register() that starts the session it is given as a remembered one
RegisterAnsweredRemembered(hasToken, token, u, expiresIn, csrf) ==
    /\ calls[Call("register", "post", FALSE)] > 0
    /\ calls' = Resume(calls, Call("register", "post", FALSE))
    /\ IF hasToken
       THEN Commit(startSession(World, token, u,
                                IF expiresIn # 0 THEN expiresIn ELSE MAX_AGE, TRUE, csrf))
       ELSE Commit(World)
    /\ snap' = Null
    /\ ev' = Event("register", "ok", IF hasToken THEN 1 ELSE 0, u)
    /\ UNCHANGED <<now, ticks, regs>>

\* the registration endpoint answers; a token in the answer starts a session
\* (the number of the step is 1 when the answer carried a token)
RegisterAnswered(hasToken, token, u, expiresIn, csrf) ==
    /\ calls[Call("register", "post", FALSE)] > 0
    /\ calls' = Resume(calls, Call("register", "post", FALSE))
    /\ IF hasToken
       THEN Commit(startSession(World, token, u,
                                IF expiresIn # 0 THEN expiresIn ELSE MAX_AGE, FALSE, csrf))
       ELSE Commit(World)
    /\ snap' = Null
    /\ ev' = Event("register", "ok", IF hasToken THEN 1 ELSE 0, u)
    /\ UNCHANGED <<now, ticks, regs>>

\* the registration request fails: an error whose response carries errors is
\* rethrown as one Error of the flattened values joined by "\n", any other
\* error is rethrown as it is.  The step records the errors and the message.
RegisterFailed(errors) ==
    /\ calls[Call("register", "post", FALSE)] > 0
    /\ calls' = Resume(calls, Call("register", "post", FALSE))
    /\ snap' = Null
    /\ ev' = IF Truthy(errors)
             THEN Event("register", "ValidationError", 0, NoUser)
                  @@ [errors |-> Val(errors),
                      message |-> join(flat(ObjectValues(Val(errors))), LINE_BREAK)]
             ELSE Event("register", "error", 0, NoUser)
    /\ UNCHANGED <<now, ticks, session, user, csrfToken, loginAttempts, lockoutUntil,
                   refreshTimer, timers, ss, ls>>
    /\ Silent

\* refreshToken() is called: the refresh request is sent
RefreshCall ==
    /\ InFlight < MaxCalls
    /\ calls' = Suspend(calls, Call("refresh", "post", FALSE))
    /\ snap' = Null
    /\ ev' = Event("refresh.call", "pending", 0, NoUser)
    /\ UNCHANGED <<now, ticks, session, user, csrfToken, loginAttempts, lockoutUntil,
                   refreshTimer, timers, ss, ls>>
    /\ Silent

\* the refresh timer is due: its callback calls refreshToken()
TimerFire(i) ==
    /\ InFlight < MaxCalls
    /\ timers[i] <= now
    /\ timers' = [j \in 1..(Len(timers) - 1) |-> IF j < i THEN timers[j] ELSE timers[j + 1]]
    /\ calls' = Suspend(calls, Call("refresh", "post", FALSE))
    /\ snap' = Null
    /\ ev' = Event("timer", "pending", 0, NoUser)
    /\ UNCHANGED <<now, ticks, session, user, csrfToken, loginAttempts, lockoutUntil,
                   refreshTimer, ss, ls>>
    /\ Silent

\* visibilitychange to visible: refreshToken() if isAuthenticated()
Visible ==
    /\ InFlight < MaxCalls
    /\ Commit(getSessionEffect(World))
    /\ calls' = IF isAuthenticated(World)
                THEN Suspend(calls, Call("refresh", "post", FALSE)) ELSE calls
    /\ snap' = Null
    /\ ev' = Event("visible", IF isAuthenticated(World) THEN "pending" ELSE "ok", 0, NoUser)
    /\ UNCHANGED <<now, ticks, regs>>

\* what refreshToken() does with the answer: body is "token" (a token, and a
\* user when u is one), "notoken" (an object without token) or "nocontent"
\* (204: the response is null and reading response.token throws into the catch)
RefreshResult(w, body, token, u, expiresIn, csrf) ==
    IF body = "token"
    THEN [w |-> startSession(w, token, IF u # NoUser THEN u ELSE getUser(w),
                             IF expiresIn # 0 THEN expiresIn ELSE MAX_AGE, FALSE, csrf),
          outcome |-> "true"]
    ELSE IF body = "notoken"
    THEN [w |-> w, outcome |-> "false"]
    ELSE [w |-> clearSession(w), outcome |-> "false"]

RefreshAnswered(body, token, u, expiresIn, csrf) ==
    /\ calls[Call("refresh", "post", FALSE)] > 0
    /\ calls' = Resume(calls, Call("refresh", "post", FALSE))
    /\ LET r == RefreshResult(World, body, token, u, expiresIn, csrf)
       IN  /\ Commit(r.w)
           /\ ev' = Event("refresh", r.outcome, 0, NoUser)
    /\ snap' = Null
    /\ UNCHANGED <<now, ticks, regs>>

\* the refresh request is rejected: the catch block
RefreshRejected(w) == [w |-> clearSession(w), outcome |-> "false"]

RefreshFailed ==
    /\ calls[Call("refresh", "post", FALSE)] > 0
    /\ calls' = Resume(calls, Call("refresh", "post", FALSE))
    /\ LET r == RefreshRejected(World)
       IN  /\ Commit(r.w)
           /\ ev' = Event("refresh", r.outcome, 0, NoUser)
    /\ snap' = Null
    /\ UNCHANGED <<now, ticks, regs>>

\* isLockedOut() called by the page
IsLockedOutCall ==
    /\ LET r == isLockedOut(World)
       IN  /\ Commit(r.w)
           /\ ev' = Event("isLockedOut", IF r.ret THEN "true" ELSE "false", r.found, NoUser)
    /\ snap' = Null
    /\ UNCHANGED <<now, ticks, regs, calls>>

\* isAuthenticated() called by the page
IsAuthenticatedCall ==
    /\ Commit(getSessionEffect(World))
    /\ ev' = Event("isAuthenticated", IF isAuthenticated(World) THEN "true" ELSE "false",
                   0, NoUser)
    /\ snap' = Null
    /\ UNCHANGED <<now, ticks, regs, calls>>

\* the page is loaded again (reload, or the navigation after logout): the
\* old page's calls and timers are gone, a new instance is constructed
Reload ==
    /\ Commit(Constructor(ss, ls))
    /\ calls' = [k \in CallKinds |-> 0]
    /\ regs' = 0
    /\ snap' = Null
    /\ ev' = Event("new", "ok", 0, NoUser)
    /\ UNCHANGED <<now, ticks>>

\* the browsing context ends and the site is opened again: the short-lived
\* scope is empty, the persistent scope is as it was left
Restart ==
    /\ Commit(Constructor(EmptyStorage, ls))
    /\ calls' = [k \in CallKinds |-> 0]
    /\ regs' = 0
    /\ snap' = Null
    /\ ev' = Event("restart", "ok", 0, NoUser)
    /\ UNCHANGED <<now, ticks>>

\* on(eventName, callback, options) called by the page
On(eventName, once) ==
    /\ regs < MaxRegs
    /\ regs' = regs + 1
    /\ listeners' = on(listeners, regs + 1, eventName, once)
    /\ started' = <<>>
    /\ dispatched' = <<>>
    /\ snap' = Null
    /\ ev' = Event("on", "ok", regs + 1, NoUser)
    /\ UNCHANGED <<now, ticks, session, user, csrfToken, loginAttempts, lockoutUntil,
                   refreshTimer, timers, ss, ls, calls, req>>

\* the page calls the function an earlier on() returned
Off(id) ==
    /\ listeners' = off(listeners, id)
    /\ started' = <<>>
    /\ dispatched' = <<>>
    /\ snap' = Null
    /\ ev' = Event("off", "ok", id, NoUser)
    /\ UNCHANGED <<now, ticks, session, user, csrfToken, loginAttempts, lockoutUntil,
                   refreshTimer, timers, ss, ls, calls, regs, req>>

\* hasRole(role) called by the page; the step records the argument
HasRoleCall(role) ==
    /\ ev' = Event("hasRole", IF hasRole(World, role) THEN "true" ELSE "false", role, NoUser)
    /\ snap' = Null
    /\ Silent
    /\ UNCHANGED <<now, ticks, session, user, csrfToken, loginAttempts, lockoutUntil,
                   refreshTimer, timers, ss, ls, calls>>

\* hasPermission(permission) called by the page
HasPermissionCall(permission) ==
    /\ ev' = Event("hasPermission", IF hasPermission(World, permission) THEN "true" ELSE "false",
                   permission, NoUser)
    /\ snap' = Null
    /\ Silent
    /\ UNCHANGED <<now, ticks, session, user, csrfToken, loginAttempts, lockoutUntil,
                   refreshTimer, timers, ss, ls, calls>>

\* a step of the HTTP client leaves the instance and the storage scopes alone
HttpStep ==
    /\ snap' = Null
    /\ started' = <<>>
    /\ dispatched' = <<>>
    /\ UNCHANGED <<now, ticks, session, user, csrfToken, loginAttempts, lockoutUntil,
                   refreshTimer, timers, ss, ls, calls, listeners, regs>>

\* request(config) with throwHttpErrors, up to its first fetch
HttpRequest(retries) ==
    /\ req.at \in {"idle", "done"}
    /\ req' = [IdleRequest EXCEPT !.at = "fetch", !.retries = retries, !.fetches = 1]
    /\ ev' = Event("http.request", "pending", retries, NoUser)
    /\ HttpStep

\* the fetch is answered with a response of some status, or rejects
HttpFetchAnswered(answer, rejection) ==
    /\ req.at = "fetch"
    /\ req' = IF Truthy(answer) /\ validateStatus(Val(answer))
              THEN [req EXCEPT !.at = "done", !.outcome = "ok"]
              ELSE catchError(req, IF Truthy(answer) THEN HttpError(Val(answer))
                                   ELSE rejection)
    /\ ev' = Event("http.fetch", req'.outcome, req'.attempts, NoUser)
    /\ HttpStep

\* the delay before a retry is over: the loop fetches again
HttpRetry ==
    /\ req.at = "delay"
    /\ req.wake <= now
    /\ req.attempts <= req.retries
    /\ req' = [req EXCEPT !.at = "fetch", !.fetches = @ + 1]
    /\ ev' = Event("http.retry", "pending", req.attempts, NoUser)
    /\ HttpStep

\* the storage of a scope, and a step of a store that leaves the instance alone
ScopeStorage(scope) == IF scope = "local" THEN ls ELSE ss

StoreStep(scope, storage) ==
    /\ IF scope = "local" THEN ls' = storage /\ ss' = ss ELSE ss' = storage /\ ls' = ls
    /\ snap' = Null
    /\ UNCHANGED <<now, ticks, session, user, csrfToken, loginAttempts, lockoutUntil,
                   refreshTimer, timers, calls>>
    /\ Silent

\* what a step of a store records: the scope, the key, the arguments, the
\* text found under the key and the value returned
StoreEvent(op, scope, key, arg, seconds, ret) ==
    Event(op, "ok", 0, NoUser)
    @@ [scope |-> scope, key |-> key, arg |-> arg, seconds |-> seconds,
        before |-> getItem(ScopeStorage(scope), STORAGE_PREFIX \o key), ret |-> ret]

\* localStore.set / sessionStore.set(key, value, {expiresIn, encrypt})
StoreSet(scope, key, value, expiresIn, encryptOption) ==
    LET r == set(ScopeStorage(scope), scope, key, value, expiresIn, encryptOption)
    IN  /\ StoreStep(scope, r.storage)
        /\ ev' = StoreEvent("store.set", scope, key, value, expiresIn, r.ret)

\* get(key, defaultValue)
StoreGet(scope, key, defaultArg) ==
    LET r == get(ScopeStorage(scope), scope, key, defaultArg)
    IN  /\ StoreStep(scope, r.storage)
        /\ ev' = StoreEvent("store.get", scope, key, defaultArg, 0, r.ret)

\* has(key)
StoreHas(scope, key) ==
    LET r == has(ScopeStorage(scope), scope, key)
    IN  /\ StoreStep(scope, r.storage)
        /\ ev' = StoreEvent("store.has", scope, key, Undefined, 0, r.ret)

\* remove(key)
StoreRemove(scope, key) ==
    /\ StoreStep(scope, remove(ScopeStorage(scope), key))
    /\ ev' = StoreEvent("store.remove", scope, key, Undefined, 0, Undefined)

\* setExpiration(key, expiresIn)
StoreSetExpiration(scope, key, expiresIn) ==
    LET r == setExpiration(ScopeStorage(scope), scope, key, expiresIn)
    IN  /\ StoreStep(scope, r.storage)
        /\ ev' = StoreEvent("store.setExpiration", scope, key, Undefined, expiresIn, r.ret)

\* something other than the classes writes a text under a key of a scope
Corrupt(scope, storageKey, text) ==
    /\ getItem(ScopeStorage(scope), storageKey) # Some(text)
    /\ StoreStep(scope, setItem(ScopeStorage(scope), storageKey, text))
    /\ ev' = Event("corrupt", "ok", 0, NoUser)

(* The session lifecycle: login (accepted or failing without a 401), logout, *)
(* register, refresh, the refresh timer and visibility changes, with        *)
(* sessions of one minute and the clock advancing by minutes.               *)
NextSession ==
    \/ Tick(MS_PER_MINUTE)
    \/ \E rm \in BOOLEAN : LoginCall(rm)
    \/ \E rm \in BOOLEAN : LoginPost(rm)
    \/ \E rm \in BOOLEAN, t \in Tokens, u \in Users, c \in CsrfTokens :
          LoginAccepted(rm, t, u, 60, c)
    \/ \E rm \in BOOLEAN : LoginFailed(rm)
    \/ Logout
    \/ \E r \in BOOLEAN : LogoutAnswered(r)
    \/ \E p \in BOOLEAN : RegisterCall(p)
    \/ RegisterPost
    \/ \E h \in BOOLEAN, t \in Tokens, u \in Users, c \in CsrfTokens :
          RegisterAnswered(h, t, u, 60, c)
    \/ \E errors \in ErrorBodies : RegisterFailed(errors)
    \/ RefreshCall
    \/ \E i \in 1..Len(timers) : TimerFire(i)
    \/ Visible
    \/ \E b \in {"token", "notoken", "nocontent"}, t \in Tokens, u \in Users \cup {NoUser},
          c \in CsrfTokens : RefreshAnswered(b, t, u, 60, c)
    \/ RefreshFailed
    \/ IsAuthenticatedCall

SpecSession == Init /\ [][NextSession]_vars

(* The attempt tracker: overlapping logins that are accepted, answered 401  *)
(* or fail otherwise, isLockedOut() called by the page, page reloads, and   *)
(* the clock advancing by one minute or by the lockout time.                *)
NextLockout ==
    \/ \E d \in ClockSteps : Tick(d)
    \/ \E rm \in BOOLEAN : LoginCall(rm)
    \/ \E rm \in BOOLEAN : LoginPost(rm)
    \/ \E rm \in BOOLEAN : LoginAccepted(rm, "t1", "u1", 0, "c1")
    \/ \E rm \in BOOLEAN : LoginUnauthorized(rm)
    \/ \E rm \in BOOLEAN : LoginFailed(rm)
    \/ IsLockedOutCall
    \/ Reload

SpecLockout == Init /\ [][NextLockout]_vars

(* The page over the two storage scopes: sessions of one minute or of 400   *)
(* seconds started by login, register and refresh, two CSRF tokens, logout, *)
(* the refresh timer, reloads and restarts of the browsing context.         *)
PageExpiresIn == {60, 400}
PageCsrfTokens == {"c1", "c2"}

NextPage ==
    \/ Tick(MS_PER_MINUTE)
    \/ \E rm \in BOOLEAN : LoginCall(rm)
    \/ \E rm \in BOOLEAN : LoginPost(rm)
    \/ \E rm \in BOOLEAN, e \in PageExpiresIn, c \in PageCsrfTokens :
          LoginAccepted(rm, "t1", "u1", e, c)
    \/ Logout
    \/ \E r \in BOOLEAN : LogoutAnswered(r)
    \/ RegisterCall(FALSE)
    \/ RegisterAnswered(TRUE, "t1", "u2", 400, "c2")
    \/ \E i \in 1..Len(timers) : TimerFire(i)
    \/ \E b \in {"token", "notoken"}, e \in PageExpiresIn, c \in PageCsrfTokens :
          RefreshAnswered(b, "t2", NoUser, e, c)
    \/ RefreshFailed
    \/ Reload
    \/ Restart

SpecPage == Init /\ [][NextPage]_vars

(* Subscribers: on() and the functions it returns, with the logins, logouts *)
(* and refreshes that dispatch authChange.                                  *)
NextEvents ==
    \/ \E n \in EventNames, once \in BOOLEAN : On(n, once)
    \/ \E id \in 1..regs : Off(id)
    \/ LoginCall(FALSE)
    \/ LoginPost(FALSE)
    \/ LoginAccepted(FALSE, "t1", "u1", 60, "c1")
    \/ Logout
    \/ \E r \in BOOLEAN : LogoutAnswered(r)
    \/ RefreshCall
    \/ RefreshAnswered("token", "t2", NoUser, 60, "c1")
    \/ RefreshFailed

SpecEvents == Init /\ [][NextEvents]_vars

(* Roles and permissions of the users that log in *)
NextRoles ==
    \/ LoginCall(FALSE)
    \/ LoginPost(FALSE)
    \/ \E u \in Profiles : LoginAccepted(FALSE, "t1", u, 60, "c1")
    \/ Logout
    \/ \E r \in BOOLEAN : LogoutAnswered(r)
    \/ \E role \in NameArgs(RoleNames) : HasRoleCall(role)
    \/ \E permission \in NameArgs(PermissionNames) : HasPermissionCall(permission)
    \/ Reload

SpecRoles == Init /\ [][NextRoles]_vars

(* Registration: register() answered with or without a token or failing    *)
(* with or without field errors, over an instance that may hold a session, *)
(* remembered or not, and failed login attempts.                           *)
NextRegister ==
    \/ Tick(MS_PER_MINUTE)
    \/ \E rm \in BOOLEAN : LoginCall(rm)
    \/ \E rm \in BOOLEAN : LoginPost(rm)
    \/ \E rm \in BOOLEAN : LoginAccepted(rm, "t1", "u1", 60, "c1")
    \/ LoginUnauthorized(FALSE)
    \/ \E p \in BOOLEAN : RegisterCall(p)
    \/ RegisterPost
    \/ \E h \in BOOLEAN, e \in {0, 400} : RegisterAnswered(h, "t2", "u2", e, "c2")
    \/ \E errors \in ErrorBodies : RegisterFailed(errors)

SpecRegister == Init /\ [][NextRegister]_vars

(* The token store: localStore over its scope with one key, values stored *)
(* with and without expiry and encryption, read before and after the      *)
(* expiry as the clock advances by minutes.                               *)
NextStore ==
    \/ Tick(MS_PER_MINUTE)
    \/ \E k \in StoreKeys, v \in StoreValues, e \in StoreExpiresIn, enc \in BOOLEAN :
          StoreSet("local", k, v, e, enc)
    \/ \E k \in StoreKeys, d \in StoreDefaults : StoreGet("local", k, d)
    \/ \E k \in StoreKeys : StoreHas("local", k)
    \/ \E k \in StoreKeys : StoreRemove("local", k)
    \/ \E k \in StoreKeys, e \in StoreExpiresIn : StoreSetExpiration("local", k, e)

SpecStore == Init /\ [][NextStore]_vars

(* Damaged records: texts no set() writes under a key of localStore or    *)
(* under auth_session in either scope, read by get(), has() and, through  *)
(* isAuthenticated() and the constructor, by getSession().                *)
NextCorrupt ==
    \/ \E k \in PrefixedKeys, text \in CorruptTexts("local") : Corrupt("local", k, text)
    \/ \E sc \in Scopes : Corrupt(sc, SESSION_KEY, [kind |-> "garbage"])
    \/ \E k \in StoreKeys : StoreSet("local", k, "v1", 0, TRUE)
    \/ \E k \in StoreKeys, d \in StoreDefaults : StoreGet("local", k, d)
    \/ \E k \in StoreKeys : StoreHas("local", k)
    \/ LoginCall(TRUE)
    \/ LoginPost(TRUE)
    \/ LoginAccepted(TRUE, "t1", "u1", 60, "c1")
    \/ IsAuthenticatedCall
    \/ Reload

SpecCorrupt == Init /\ [][NextCorrupt]_vars

(* The HTTP client: requests with no or two retries, answered with 200,   *)
(* 404 or 503 or rejected by the network or the timeout, and the clock     *)
(* advancing by the retry delay or twice or half of it.                    *)
NextHttp ==
    \/ \E d \in {RETRY_DELAY \div 2, RETRY_DELAY, 2 * RETRY_DELAY} : Tick(d)
    \/ \E r \in RetriesValues : HttpRequest(r)
    \/ \E a \in Answers, e \in Rejections : HttpFetchAnswered(a, e)
    \/ HttpRetry

SpecHttp == Init /\ [][NextHttp]_vars

(* Every operation together *)
Next ==
    \/ NextSession
    \/ NextLockout
    \/ NextPage
    \/ NextEvents
    \/ NextRoles
    \/ NextRegister
    \/ NextStore
    \/ NextCorrupt
    \/ NextHttp
    \/ \E rm \in BOOLEAN, t \in Tokens, u \in Users, e \in ExpiresInValues, c \in CsrfTokens :
          LoginAccepted(rm, t, u, e, c)

Spec == Init /\ [][Next]_vars

----------------------------------------------------------------------------
(* Claims *)

\* How many of the two storage scopes hold an auth_session record
SessionScopes ==
    (IF Truthy(getItem(ss, SESSION_KEY)) THEN 1 ELSE 0)
    + (IF Truthy(getItem(ls, SESSION_KEY)) THEN 1 ELSE 0)

\* C1: in every reachable state isAuthenticated() is true only if a session is
\* held and its expiresAt has not passed: once the clock is past expiresAt,
\* isAuthenticated() is false without any further operation.
C1_AuthenticatedOnlyUntilExpiry ==
    isAuthenticated(World) => Val(getSessionValue(World)).expiresAt >= now

\* C2: after any sequence of login (either rememberMe), register, refreshToken
\* and logout the auth_session record is in exactly one storage scope while a
\* session is held and in none otherwise; it is never in both scopes at once.
C2_SessionInExactlyOneScope ==
    SessionScopes = (IF isAuthenticated(World) THEN 1 ELSE 0)

\* C10: whenever refreshToken() resolves to false the session has been cleared,
\* so isAuthenticated() is false afterwards; it resolves to true only with a
\* session established.
C10_FailedRefreshClearsSession ==
    ev.op = "refresh" =>
        /\ ev.outcome \in {"true", "false"}
        /\ ev.outcome = "false" => ~isAuthenticated(World)
        /\ ev.outcome = "true" => isAuthenticated(World)

(* The attempt tracker as the storage scope holds it *)
StoredAttempts == getLoginAttempts(World)
StoredLockout == getLockoutTime(World)
LockoutActive == StoredLockout # 0 /\ StoredLockout > now
FrameNow == Frame(World)
Rejected401(e) == e.op = "login" /\ e.outcome \in {"InvalidCredentials", "AccountLocked"}

C4_KthFailure ==
    [][ (Rejected401(ev') /\ StoredAttempts < MAX_ATTEMPTS) =>
            LET k == StoredAttempts + 1
            IN  /\ StoredAttempts' = k
                /\ loginAttempts' = k
                /\ k < MAX_ATTEMPTS =>
                      /\ ev'.outcome = "InvalidCredentials"
                      /\ ~LockoutActive'
                      /\ ~(isLockedOut(World).ret)'
                /\ k = MAX_ATTEMPTS =>
                      /\ ev'.outcome = "AccountLocked"
                      /\ ev'.val = LOCKOUT_TIME
                      /\ StoredLockout' = now + LOCKOUT_TIME * MS_PER_MINUTE
                      /\ lockoutUntil' = StoredLockout'
      ]_vars

C4_Witness ==
    /\ ev.op = "login"
    /\ ev.outcome = "AccountLocked"
    /\ StoredAttempts = MAX_ATTEMPTS
    /\ StoredLockout = now + LOCKOUT_TIME * MS_PER_MINUTE

\* C5 as stated: for every n < MAX_ATTEMPTS - 1, after n consecutive 401
\* failures no lockout is active and the next failed login reports exactly
\* MAX_ATTEMPTS - n attempts remaining.
C5_RemainingAsStated ==
    [][ (Rejected401(ev') /\ StoredAttempts < MAX_ATTEMPTS - 1) =>
            /\ ~LockoutActive
            /\ ev'.outcome = "InvalidCredentials"
            /\ ev'.val = MAX_ATTEMPTS - StoredAttempts
      ]_vars

\* C5 amended: for every n < MAX_ATTEMPTS - 1, after n consecutive 401 failures
\* no lockout is active and the next failed login reports exactly
\* MAX_ATTEMPTS - n - 1 attempts remaining (the failure itself is counted).
C5_RemainingAfterFailure ==
    [][ (Rejected401(ev') /\ StoredAttempts < MAX_ATTEMPTS - 1) =>
            /\ ~LockoutActive
            /\ ~isLockedOut(World).ret
            /\ ev'.outcome = "InvalidCredentials"
            /\ ev'.val = MAX_ATTEMPTS - StoredAttempts - 1
      ]_vars

C5_Witness ==
    /\ ev.op = "login"
    /\ ev.outcome = "InvalidCredentials"
    /\ StoredAttempts = MAX_ATTEMPTS - 2
    /\ ev.val = 2

\* C6: login() called while a lockout window is active fails with the lockout
\* error carrying the minutes remaining (rounded up), sends no request and
\* leaves the counter, lockout_until, session, user, CSRF token and both
\* storage scopes unchanged.
C6_LockedLoginChangesNothing ==
    [][ /\ LockoutActive => ev'.op # "login.call"
        /\ (ev'.op = "login" /\ ev'.outcome = "TooManyAttempts") =>
              /\ LockoutActive
              /\ ev'.val = Ceil(StoredLockout - now, MS_PER_MINUTE)
              /\ ev'.val \in 1..LOCKOUT_TIME
              /\ calls' = calls
              /\ FrameNow' = FrameNow
      ]_vars

C6_Witness ==
    /\ ev.op = "login"
    /\ ev.outcome = "TooManyAttempts"
    /\ ev.val = LOCKOUT_TIME - 1
    /\ LockoutActive

\* C7: for every interleaving of overlapping login() calls, no login request
\* is sent at a moment when a lockout window is active.
C7_NoRequestWhileLocked ==
    ev.op = "login.post" => ~LockoutActive

\* C8: an accepted login() establishes session, user and CSRF token, resets the
\* counter to 0, removes login_attempts and lockout_until from storage and
\* returns the user of the response, whatever the counter was before.
C8_AcceptedLoginResets ==
    (ev.op = "login" /\ ev.outcome = "ok") =>
        /\ Truthy(session)
        /\ Val(session).token \in Tokens
        /\ Val(session).expiresAt > now
        /\ isAuthenticated(World)
        /\ ev.usr \in Users
        /\ user = ev.usr
        /\ getUser(World) = ev.usr
        /\ csrfToken \in CsrfTokens
        /\ loginAttempts = 0
        /\ lockoutUntil = 0
        /\ StoredAttempts = 0
        /\ ~Truthy(getItem(ss, LOGIN_ATTEMPTS_KEY))
        /\ ~Truthy(getItem(ss, LOCKOUT_UNTIL_KEY))
        /\ ~isLockedOut(World).ret

C8_Witness ==
    /\ ev.op = "login"
    /\ ev.outcome = "ok"
    /\ ev.val = MAX_ATTEMPTS
    /\ StoredAttempts = 0

\* C9 as stated: a login() whose request fails with anything but a 401 rethrows
\* the error and leaves the counter, lockout_until, session, user, CSRF token
\* and both storage scopes as it found them.
C9_FailedLoginChangesNothing ==
    (ev.op = "login" /\ ev.outcome = "error" /\ Truthy(snap)) => FrameNow = Val(snap)

\* C9 amended: such a login() leaves all of that as it found it, except that a
\* login() called once a lockout window has expired has, at its gate, reset the
\* counter to 0 and removed login_attempts and lockout_until.
C9_FailedLoginChangesOnlyExpiredLockout ==
    (ev.op = "login" /\ ev.outcome = "error" /\ Truthy(snap)) =>
        \/ FrameNow = Val(snap)
        \/ /\ Val(snap).lockoutUntil # 0
           /\ Val(snap).lockoutUntil <= now
           /\ FrameNow = [Val(snap) EXCEPT
                            !.loginAttempts = 0,
                            !.lockoutUntil = 0,
                            !.ss = removeItem(removeItem(@, LOGIN_ATTEMPTS_KEY),
                                              LOCKOUT_UNTIL_KEY)]

C9_Witness ==
    /\ ev.op = "login"
    /\ ev.outcome = "error"
    /\ Truthy(snap)
    /\ Val(snap).loginAttempts = MAX_ATTEMPTS - 1
    /\ FrameNow = Val(snap)

----------------------------------------------------------------------------
(* Claims on the session record, the timer, events, roles and the user *)

\* a subscriber's view of an instance that holds nothing
Cleared(v) ==
    /\ ~v.isAuthenticated
    /\ v.session = Null
    /\ v.user = NoUser
    /\ v.csrfToken = NoCsrf
    /\ \A k \in SessionKeys : v.ss[k] = Null /\ v.ls[k] = Null
    /\ v.timers = <<>>
    /\ v.refreshTimer = 0
ViewNow == View(World)
LogoutCall == Call("logout", "post", FALSE)
RefreshRequest == Call("refresh", "post", FALSE)

\* C11: when clearSession() returns (its event is the last thing it does) and
\* when logout() returns, isAuthenticated() is false, getSession() is null, the
\* three session keys are absent from both scopes, session, user and CSRF token
\* are null in memory and no refresh timer is pending; logout leaves its
\* notification in flight, and the answer to it, accepted or rejected, changes
\* nothing and raises nothing.
C11_ClearedAfterLogout ==
    [][ /\ \A i \in DOMAIN dispatched' :
              ~dispatched'[i].isAuthenticated => Cleared(dispatched'[i].seen)
        /\ ev'.op = "logout" =>
              /\ Cleared(ViewNow')
              /\ getSessionValue(World)' = Null
              /\ Len(dispatched') = 1
              /\ calls' = Suspend(calls, LogoutCall)
        /\ ev'.op = "logout.post" =>
              /\ ev'.outcome \in {"ok", "logged"}
              /\ ViewNow' = ViewNow
              /\ FrameNow' = FrameNow
      ]_vars

C11_Witness ==
    /\ ev.op = "logout"
    /\ ev.val = 1
    /\ Len(dispatched) = 1
    /\ Cleared(ViewNow)
    /\ calls[LogoutCall] > 0

\* C12: every startSession stores the CSRF token it generated in memory and in
\* auth_csrf of both scopes, and whenever the instance holds a session,
\* sessionStorage auth_csrf, localStorage auth_csrf and csrfToken are equal.
C12_CsrfDuplicated ==
    /\ Truthy(started) =>
          /\ csrfToken = Val(started).csrf
          /\ getItem(ss, CSRF_KEY) = Some(csrfToken)
          /\ getItem(ls, CSRF_KEY) = Some(csrfToken)
    /\ isAuthenticated(World) =>
          /\ getItem(ss, CSRF_KEY) = getItem(ls, CSRF_KEY)
          /\ getItem(ss, CSRF_KEY) = Some(csrfToken)

C14_OneTimer ==
    /\ Len(timers) <= 1
    /\ Len(timers) = 1 => timers[1] = refreshTimer

C14_Witness ==
    /\ ev.op = "refresh"
    /\ ev.outcome = "true"
    /\ now > 0
    /\ Len(timers) = 1
    /\ timers[1] > now

\* C15: right after startSession({token, user, expiresIn}) getSession() returns
\* a session with that token and expiresAt = now + expiresIn seconds, and the
\* record in the scope rememberMe selects holds the same two values.
C15_SessionAsStarted ==
    Truthy(started) =>
        LET a == Val(started)
            expected == [token |-> a.token, expiresAt |-> now + a.expiresIn * 1000]
            stored == getItem(IF a.rememberMe THEN ls ELSE ss, SESSION_KEY)
        IN  /\ getSessionValue(World) = Some(expected)
            /\ Truthy(stored)
            /\ JSONparses(Val(stored))
            /\ JSONparseSession(Val(stored)) = expected

C15_Witness ==
    /\ Truthy(started)
    /\ Val(started).rememberMe
    /\ Val(started).expiresIn = 400
    /\ now = MS_PER_MINUTE
    /\ Val(session).expiresAt = MS_PER_MINUTE + 400 * MS_PER_SECOND

\* an auth_session record whose expiresAt is in the past
ExpiredRecord(storage) ==
    /\ Truthy(getItem(storage, SESSION_KEY))
    /\ JSONparseSession(Val(getItem(storage, SESSION_KEY))).expiresAt < now

\* C16: when no session is cached (a page is being loaded) and a storage scope
\* holds an auth_session record whose expiresAt is in the past, getSession()
\* returns null, the three session keys are removed from both scopes and an
\* authChange event with isAuthenticated false is published.
C16_ExpiredRecordEvicted ==
    [][ (\/ ev'.op = "new" /\ (ExpiredRecord(ss) \/ ExpiredRecord(ls))
         \/ ev'.op = "restart" /\ ExpiredRecord(ls)) =>
            /\ session' = Null
            /\ \A k \in SessionKeys : getItem(ss', k) = Null /\ getItem(ls', k) = Null
            /\ Len(dispatched') = 1
            /\ ~dispatched'[1].isAuthenticated
      ]_vars

Range(seq) == {seq[i] : i \in DOMAIN seq}
ElementsOf(x) == IF x.isArray THEN Range(x.v) ELSE {x.v}
RoleSet(u) ==
    IF u = NoUser \/ UserObjects[u].roles = <<>> THEN {}
    ELSE ElementsOf(UserObjects[u].roles[1])
PermissionSet(u) ==
    IF u = NoUser \/ UserObjects[u].permissions = <<>> THEN {}
    ELSE ElementsOf(UserObjects[u].permissions[1])

\* C17: hasRole(R) is true iff some element of R is in the current user's role
\* set; hasPermission(P) is true only if every element of P is in the user's
\* permission set; one string counts as a one-element list; both are false
\* when there is no user.
C17_RolesAnyPermissionsAll ==
    /\ ev.op = "hasRole" =>
          /\ ev.outcome = "true" <=> ElementsOf(ev.val) \cap RoleSet(getUser(World)) # {}
          /\ getUser(World) = NoUser => ev.outcome = "false"
    /\ ev.op = "hasPermission" =>
          /\ ev.outcome = "true" => ElementsOf(ev.val) \subseteq PermissionSet(getUser(World))
          /\ getUser(World) = NoUser => ev.outcome = "false"

C17_Witness ==
    /\ ev.op = "hasRole"
    /\ ev.outcome = "true"
    /\ ev.val = Many(<<"staff", "admin">>)
    /\ getUser(World) = "u2"

\* the listeners of that name among those given, by their ranks of registration
Subscribers(registered, eventName) ==
    LET mine == SelectSeq(registered, LAMBDA l : l.name = eventName)
    IN  [i \in 1..Len(mine) |-> mine[i].id]
StillDue(registered, eventName) ==
    LET mine == SelectSeq(registered, LAMBDA l : l.name = eventName /\ ~(l.once /\ l.removed))
    IN  [i \in 1..Len(mine) |-> mine[i].id]
Increasing(seq) == \A i, j \in DOMAIN seq : i < j => seq[i] < seq[j]

\* C18 as stated: every dispatched event is received exactly once, in
\* registration order, by each subscriber of that event registered with on()
\* before the dispatch that has not unsubscribed, and by no one else.
C18_EverySubscriberReceives ==
    [][ \A i \in DOMAIN dispatched' :
            /\ dispatched'[i].receivers = Subscribers(listeners, dispatched'[i].name)
            /\ Increasing(dispatched'[i].receivers)
      ]_vars

\* C18 amended: every dispatched event is received exactly once, in
\* registration order, by each subscriber of that event registered before the
\* dispatch that has not unsubscribed and, when it registered with the option
\* once, has not received an event before; by no one else.  on() adds the
\* subscriber last and delivers nothing; unsubscribing removes it.
C18_SubscribersStillDueReceive ==
    [][ /\ \A i \in DOMAIN dispatched' :
              /\ dispatched'[i].receivers = StillDue(listeners, dispatched'[i].name)
              /\ Increasing(dispatched'[i].receivers)
        /\ ev'.op = "on" =>
              /\ dispatched' = <<>>
              /\ Len(listeners') = Len(listeners) + 1
              /\ SubSeq(listeners', 1, Len(listeners)) = listeners
              /\ listeners'[Len(listeners')].id = ev'.val
              /\ \A j \in DOMAIN listeners : listeners[j].id < ev'.val
        /\ ev'.op = "off" =>
              /\ dispatched' = <<>>
              /\ \A j \in DOMAIN listeners' : listeners'[j].id # ev'.val
              /\ listeners' = SelectSeq(listeners, LAMBDA l : l.id # ev'.val)
      ]_vars

C18_Witness ==
    /\ Len(dispatched) = 1
    /\ dispatched[1].receivers = <<2>>
    /\ Len(listeners) = 2
    /\ listeners[1].once /\ listeners[1].removed /\ listeners[1].name = AUTH_CHANGE

\* the part of a view that startSession and clearSession write
SessionPart(v) ==
    [isAuthenticated |-> v.isAuthenticated, user |-> v.user, session |-> v.session,
     csrfToken |-> v.csrfToken, ss |-> v.ss, ls |-> v.ls]

\* C19: a subscriber that looks at the instance or the storage scopes while an
\* authChange event is delivered finds the state the operation leaves, and
\* isAuthenticated() equal to the value the event carries; an event with
\* isAuthenticated false carries user null, one with true the new user.
C19_EventAfterWrites ==
    \A i \in DOMAIN dispatched :
        LET d == dispatched[i]
        IN  /\ d.name = AUTH_CHANGE
            /\ d.seen.isAuthenticated = d.isAuthenticated
            /\ SessionPart(d.seen) = SessionPart(ViewNow)
            /\ ~d.isAuthenticated => d.user = NoUser /\ Cleared(d.seen)
            /\ d.isAuthenticated =>
                  /\ Truthy(started)
                  /\ d.user = Val(started).user
                  /\ d.seen.session = session
                  /\ d.seen.ss[CSRF_KEY] = Some(Val(started).csrf)

C19_Witness ==
    /\ Len(dispatched) = 1
    /\ dispatched[1].isAuthenticated
    /\ Len(dispatched[1].receivers) = 2
    /\ ev.op = "refresh"

\* C20: a current user exists only while a session exists: getUser() is
\* non-null only if getSession() is; startSession leaves the user and the
\* session of its arguments together, clearSession leaves neither.
C20_UserOnlyWithSession ==
    /\ getUser(World) # NoUser => isAuthenticated(World)
    /\ user # NoUser => Truthy(session)
    /\ Truthy(started) =>
          /\ getUser(World) = Val(started).user
          /\ Val(getSessionValue(World)).token = Val(started).token
    /\ \A i \in DOMAIN dispatched :
          ~dispatched[i].isAuthenticated =>
              dispatched[i].seen.user = NoUser /\ dispatched[i].seen.session = Null

C20_Witness ==
    /\ ev.op = "logout"
    /\ ev.val = 1
    /\ getUser(World) = NoUser
    /\ getSessionValue(World) = Null

----------------------------------------------------------------------------
(* Claims on registration, the token store, the HTTP client and the        *)
(* instance under overlapping calls                                        *)

\* the refresh timer the instance holds is still to fire
TimerPending(w) ==
    w.refreshTimer # 0 /\ \E i \in 1..Len(w.timers) : w.timers[i] = w.refreshTimer

\* the messages of the fields, field after field
RECURSIVE FieldMessages(_)
FieldMessages(fields) ==
    IF fields = <<>> THEN <<>>
    ELSE AsArray(Head(fields).value) \o FieldMessages(Tail(fields))

\* the text is the messages with one line break between neighbours
JoinedByLineBreaks(text, messages) ==
    /\ Len(text) = Max(2 * Len(messages) - 1, 0)
    /\ \A k \in 1..Len(messages) : text[2 * k - 1] = messages[k]
    /\ \A k \in 1..(Len(messages) - 1) : text[2 * k] = LINE_BREAK

\* C21: register() establishes a session (record in the short-lived scope,
\* the CSRF token drawn for it, refresh timer pending, authChange published)
\* exactly when the answer carries a token; an answer without token and a
\* failure leave session, user, CSRF token, refresh timer, attempt counter
\* and both storage scopes as they were; a failure with field errors is
\* rethrown with the field messages joined by line breaks as its message.
C21_RegisterStartsSessionOnToken ==
    [][ev'.op = "register" =>
          IF ev'.outcome = "ok" /\ ev'.val = 1
          THEN /\ Truthy(started') /\ Truthy(session')
               /\ ~Val(started').rememberMe
               /\ Val(session').token = Val(started').token
               /\ getItem(ss', SESSION_KEY) = Some(JSONstringifySession(Val(session')))
               /\ getItem(ls', SESSION_KEY) = getItem(ls, SESSION_KEY)
               /\ user' = ev'.usr
               /\ csrfToken' = Val(started').csrf
               /\ getItem(ss', CSRF_KEY) = Some(csrfToken')
               /\ TimerPending(World)'
               /\ \E i \in DOMAIN dispatched' :
                      dispatched'[i].name = AUTH_CHANGE /\ dispatched'[i].isAuthenticated
          ELSE /\ FrameNow' = FrameNow
               /\ UNCHANGED <<refreshTimer, timers>>
               /\ started' = Null /\ dispatched' = <<>>
               /\ ev'.outcome = "ValidationError" =>
                      JoinedByLineBreaks(ev'.message, FieldMessages(ev'.errors))]_vars

C21_Witness ==
    /\ ev.op = "register" /\ ev.outcome = "ok" /\ ev.val = 1
    /\ Truthy(started)
    /\ Truthy(getItem(ls, SESSION_KEY))
    /\ loginAttempts > 0

\* what a step of a store found under its key and left there
StoreBefore == ParseItem(Val(ev.before), ev.scope)
StoreAfter == getItem(ScopeStorage(ev.scope), STORAGE_PREFIX \o ev.key)
DefaultOf(arg) == IF arg = Undefined THEN JsNull ELSE arg

\* the step read a record that set() wrote with an expiry
ReadWithExpiry ==
    /\ ev.op \in {"store.get", "store.has"}
    /\ Truthy(ev.before)
    /\ ~StoreBefore.throws
    /\ Truthy(StoreBefore.value)
    /\ StoreBefore.options.expiresAt # 0

\* C22: a record stored with an expiry of e seconds expires e seconds after
\* the set; get(key, default) after the expiry time returns the default and
\* removes the record, has(key) removes it and returns false; before the
\* expiry time get returns the stored value, has returns true, and the
\* record stays as it was.
C22_ExpiredRecordsEvicted ==
    /\ (ev.op = "store.set" /\ ev.seconds # 0) =>
          /\ Truthy(StoreAfter)
          /\ ParseItem(Val(StoreAfter), ev.scope).options.expiresAt
                = now + ev.seconds * MS_PER_SECOND
          /\ ParseItem(Val(StoreAfter), ev.scope).value = Some(ev.arg)
    /\ (ReadWithExpiry /\ StoreBefore.options.expiresAt < now) =>
          /\ StoreAfter = Null
          /\ ev.ret = IF ev.op = "store.get" THEN DefaultOf(ev.arg) ELSE FALSE
    /\ (ReadWithExpiry /\ now < StoreBefore.options.expiresAt) =>
          /\ StoreAfter = ev.before
          /\ ev.ret = IF ev.op = "store.get" THEN Val(StoreBefore.value) ELSE TRUE

C22_Witness ==
    /\ ReadWithExpiry
    /\ ev.op = "store.get"
    /\ StoreBefore.options.expiresAt < now
    /\ ev.ret = "d1"
    /\ StoreAfter = Null

\* the text under auth_session that getSession() would read cannot be parsed
UnparsableSession(w) ==
    LET sessionData == OrElse(getItem(w.ss, SESSION_KEY), getItem(w.ls, SESSION_KEY))
    IN  Truthy(sessionData) /\ ~JSONparses(Val(sessionData))

\* C23: a corrupt, tampered or unparsable record is not surfaced as an
\* error: get() returns the default and removes the record; getSession()
\* reading an unparsable auth_session returns null and removes it, so that
\* the key is absent from then on.
C23_CorruptRecordsEvicted ==
    [][/\ (/\ ev'.op = "store.get"
           /\ Truthy(ev'.before)
           /\ Val(ev'.before) \in CorruptTexts(ev'.scope)) =>
              /\ ev'.ret = DefaultOf(ev'.arg)
              /\ StoreAfter' = Null
       /\ (/\ UnparsableSession(World)
           /\ \/ ev'.op = "new"
              \/ ev'.op = "isAuthenticated" /\ session = Null) =>
              /\ session' = Null
              /\ ev'.op = "isAuthenticated" => ev'.outcome = "false"
              /\ getItem(ss', SESSION_KEY) = Null
              /\ getItem(ls', SESSION_KEY) = Null]_vars

\* the step found a record that is there and has not expired
FoundPresent ==
    /\ Truthy(ev.before)
    /\ ~StoreBefore.throws
    /\ ~(StoreBefore.options.expiresAt # 0 /\ StoreBefore.options.expiresAt < now)

\* C24: setExpiration(key, seconds) on an absent or expired key returns
\* false and leaves no record; on a present key it returns true and leaves
\* the value as it was with the expiry now + seconds.
C24_SetExpirationOnExistingOnly ==
    ev.op = "store.setExpiration" =>
        IF FoundPresent
        THEN /\ ev.ret = TRUE
             /\ Truthy(StoreAfter)
             /\ ParseItem(Val(StoreAfter), ev.scope).value = StoreBefore.value
             /\ ParseItem(Val(StoreAfter), ev.scope).options.expiresAt
                   = now + ev.seconds * MS_PER_SECOND
        ELSE /\ ev.ret = FALSE
             /\ StoreAfter = Null

\* C25: request() retries only an error that is retryable (no response, a
\* timeout, a 5xx response) and only while retries remain: an error that is
\* not retryable is thrown by the fetch that met it and never waited on; a
\* retryable error is followed, retryDelay * attempt later and not before,
\* by another fetch until one succeeds or `retries` retries are used up;
\* the fetches of one call never exceed retries + 1.
C25_RetriesOnlyRetryable ==
    /\ req.fetches <= req.retries + 1
    /\ (req.outcome = "thrown" /\ isRetryableError(Val(req.error))) =>
          req.fetches = req.retries + 1
    /\ req.at = "delay" =>
          /\ isRetryableError(Val(req.error))
          /\ req.wake = req.since + RETRY_DELAY * req.attempts
    /\ (req.at = "fetch" /\ req.fetches > 1) => req.wake <= now

\* C26: the stored attempt counter login_attempts never exceeds
\* MAX_ATTEMPTS, whatever the order in which the 401 answers of overlapping
\* login() calls arrive.
C26_StoredAttemptsBounded ==
    /\ StoredAttempts <= MAX_ATTEMPTS
    /\ loginAttempts <= MAX_ATTEMPTS

\* the step just taken ran clearSession()
ClearedNow ==
    \E i \in DOMAIN dispatched :
        dispatched[i].name = AUTH_CHANGE /\ ~dispatched[i].isAuthenticated

\* C27: after logout()/clearSession() the instance stays unauthenticated
\* until a login, register or refresh that was started afterwards succeeds.
\* A call takes one step to start and another to complete, so whatever
\* completes in the step right after the clearing was in flight before it:
\* that step starts no session and leaves the instance unauthenticated.
C27_NoSessionFromEarlierCall ==
    [][ClearedNow => (started' = Null /\ ~isAuthenticated(World)')]_vars

\* C28: a refresh timer is pending only while the instance holds a
\* session: whenever the timer is pending, getSession() is not null.
C28_TimerOnlyWithSession ==
    TimerPending(World) => Truthy(getSessionValue(World))

\* the step constructed a new instance over the scopes the old one left
Constructed(e) == e.op \in {"new", "restart"}
Unexpired(s) == ~(s.expiresAt # 0 /\ s.expiresAt < now)

\* the session a scope holds a record of, if it holds one that has not expired
ValidRecord(storage) ==
    /\ Truthy(getItem(storage, SESSION_KEY))
    /\ JSONparses(Val(getItem(storage, SESSION_KEY)))
    /\ Unexpired(JSONparseSession(Val(getItem(storage, SESSION_KEY))))

\* C29: a new instance over the same scopes restores the session
\* established last, if it has not expired: after a reload it holds the
\* session the old instance held, it never holds another one in its place,
\* and an expired record in one scope does not make it discard the valid
\* session of the other scope.
C29_RestoresLatestSession ==
    [][Constructed(ev') =>
          /\ (Truthy(session) /\ Unexpired(Val(session)) /\ Truthy(session')) =>
                session' = session
          /\ (ev'.op = "new" /\ Truthy(session) /\ Unexpired(Val(session))) =>
                session' = session
          /\ ((ExpiredRecord(ss) /\ ValidRecord(ls) /\ ev'.op = "new")
               \/ (ExpiredRecord(ls) /\ ValidRecord(ss) /\ ev'.op = "new")) =>
                Truthy(session')]_vars

\* C30: the refresh precedes the expiry: when startSession has established
\* a session or the constructor has restored one, the timer armed for it is
\* pending and fires strictly before the session's expiresAt.
C30_RefreshBeforeExpiry ==
    [][((Truthy(started') \/ Constructed(ev')) /\ Truthy(session')) =>
          /\ TimerPending(World)'
          /\ refreshTimer' < Val(session').expiresAt]_vars

====
